---------------------------- MODULE Spec2Model ----------------------------
(***************************************************************************)
(* A model of K2DataArray (py4DSTEM/file/io/gatanK2.py): the reader of a   *)
(* Gatan K2IS fileset of 8 sector streams of fixed-size stripes.           *)
(*                                                                         *)
(*   Spec        a constructed dataset and its client: dark_reference is   *)
(*               set and deleted, then one of __getitem__, max and         *)
(*               _grab_frame is called                                     *)
(*   SpecSlices  _parse_slices on slices drawn by InitSlices               *)
(*   SpecSync    _find_offsets over the filesets drawn by InitSync         *)
(*   FairSync    the same over damaged filesets, the interpreter running   *)
(*               every step                                                *)
(*   SpecCtor    construction (__init__, _attach_to_files, _find_offsets)  *)
(*               and teardown (__del__) over a fileset drawn by InitCtor   *)
(*   FairCtor    the same, with the interpreter running every step         *)
(***************************************************************************)
EXTENDS Integers, Sequences, FiniteSets, TLC

VARIABLES
    fileset,          \* the 8 streams on disk (never written)
    pc,               \* position of the constructor / life of the object
    bin_files,        \* self._bin_files : handle state per sector
    closes,           \* number of close() calls each handle received
    i,                \* sector index of the running loop of _find_offsets
    frame,            \* local scan counter `frame` of _find_offsets
    block_id,         \* block id all sectors are aligned to
    shutter_offsets,  \* self._shutter_offsets
    stripe,           \* the array the last np.fromfile of a scan returned
    first_frame,      \* stripe['frame'] of the last scan read
    next_frame,       \* frame id sought by the re-scan (-1: unbound)
    sync,             \* the flag `sync` after a completeness check
    notOpen,          \* per sector: candidate frames read whose shutter field was not 1
    added,            \* per sector: what the shutter scan added to the offset
    shape,            \* self.shape = (R_Nx, R_Ny, Q_Nx, Q_Ny)
    hidden_stripe_noise_reduction,   \* self._hidden_stripe_noise_reduction
    user_noise_reduction,            \* self._user_noise_reduction ("unset": no such attribute)
    user_dark_reference,             \* self._user_dark_reference
    call,             \* the call the client makes on the dataset
    out,              \* the outcome of the last operation
    log               \* the constructor's flag and the dark_reference changes made

vars == <<fileset, pc, bin_files, closes, i, frame, block_id, shutter_offsets,
          stripe, first_frame, next_frame, sync, notOpen, added, shape,
          hidden_stripe_noise_reduction, user_noise_reduction,
          user_dark_reference, call, out, log>>

syncVars == <<i, frame, block_id, shutter_offsets, stripe, first_frame,
              next_frame, sync, notOpen, added>>

dataVars == <<shape, hidden_stripe_noise_reduction, user_noise_reduction,
              user_dark_reference, call, out, log>>

---------------------------------------------------------------------------
(* Format constants. *)

NumSectors == 8
BLOCKS_PER_SECTOR_PER_FRAME == 32
U16 == 65536

\* A '>u4' field is held as its two 16-bit halves <<high, low>>.
SYNC_WORD == <<65535, 85>>         \* 0xffff0055
U32Max == <<U16 - 1, U16 - 1>>     \* 0xffffffff
U32Of(n) == <<(n \div U16) % U16, n % U16>>
U32Add(a, n) == <<(a[1] + (a[2] + n) \div U16) % U16, (a[2] + n) % U16>>
U32Leq(a, b) == a[1] < b[1] \/ (a[1] = b[1] /\ a[2] <= b[2])
\* np.max over uint32 values
U32SetMax(S) == CHOOSE x \in S : \A y \in S : U32Leq(y, x)

\* a stripe carries 930 x 16 pixels; a sector is 256 columns wide; the image
\* is 1860 x 2048, its rows from 1792 on are hidden
STRIPE_HEIGHT == 930
STRIPE_WIDTH == 16
SECTOR_WIDTH == 256
IMAGE_HEIGHT == 1860
IMAGE_WIDTH == 2048
HIDDEN_ROW == 1792
ACTIVE_WIDTH == 1920
STRIPES_PER_ROW == SECTOR_WIDTH \div STRIPE_WIDTH
BYTE == 256

Sectors == 0 .. NumSectors - 1
NoSector == NumSectors             \* "no sector" in a fileset parameter

(* Bounds of the filesets drawn. *)
MaxSkew == 1        \* records a sector may start later than another
MaxPartial == 1     \* stripes left of an incomplete first frame
MaxClosed == 1      \* frames recorded before the shutter opens
FrameBase == 5      \* frame id of the first (possibly incomplete) frame
BlockBase == 100    \* block id of the first record of the acquisition
OddBias == 50       \* frame-id error of a damaged sector
ScanNx == 2         \* scan positions along x (R_Nx)
ScanNy == 3         \* scan positions along y (R_Ny)
SmallQ == 2         \* side of a small detector
MaxOps == 2         \* dark_reference changes made on one dataset
MaxStop == 3        \* largest bound of a slice drawn for _parse_slices

DarkLevels == {7}  \* values a user's dark reference is filled with

OpenVals == {1, 2}  \* non-zero values of the 8-bit shutter field

SetMax(S) == CHOOSE x \in S : \A y \in S : y <= x

---------------------------------------------------------------------------
(* The streams.  All sectors record the same global sequence of stripes;   *)
(* sector s misses its first fileset.skew[s] records; fileset.late is the  *)
(* largest skew.  The first frame boundary lies fileset.partial records    *)
(* after the latest sector start.                                          *)

Boundary == fileset.late + fileset.partial

GlobalLen == Boundary + BLOCKS_PER_SECTOR_PER_FRAME * fileset.nframes

\* number of whole records in sector s's file
NumRecords(s) ==
    IF s = fileset.short THEN fileset.shortLen ELSE GlobalLen - fileset.skew[s]

FrameIdx(k) == (k + BLOCKS_PER_SECTOR_PER_FRAME - Boundary) \div BLOCKS_PER_SECTOR_PER_FRAME

FramePos(k) == (k + BLOCKS_PER_SECTOR_PER_FRAME - Boundary) % BLOCKS_PER_SECTOR_PER_FRAME

\* The 32 stripes of a sector's frame tile its 256 x 1860 slice: stripe j
\* fills the 16 columns from 16 * (j % 16) and the 930 rows from
\* 930 * (j \div 16).  coords = (first x, first y, last x, last y), inclusive.
Coords(j) ==
    << STRIPE_WIDTH * (j % STRIPES_PER_ROW),
       STRIPE_HEIGHT * (j \div STRIPES_PER_ROW),
       STRIPE_WIDTH * (j % STRIPES_PER_ROW) + STRIPE_WIDTH - 1,
       STRIPE_HEIGHT * (j \div STRIPES_PER_ROW) + STRIPE_HEIGHT - 1 >>

\* The 22320 payload bytes of a stripe repeat one group of 3 bytes: the first
\* names the stripe, the second is the level of the frame's upper or lower
\* half, the third names the frame.
Payload(fi, s, j) ==
    << (BLOCKS_PER_SECTOR_PER_FRAME * s + j) % BYTE,
       IF j \div STRIPES_PER_ROW = 0
       THEN (fileset.pix.top + fileset.pix.step * fi) % BYTE
       ELSE fileset.pix.bot,
       fi % BYTE >>

BAD_SYNC == <<0, 0>>

\* the header fields of record p of sector s (0 <= p < NumRecords(s))
Stripe(s, p) ==
    LET k == fileset.skew[s] + p
        fi == FrameIdx(k)
    IN  [ block   |-> U32Add(fileset.blockBase, k),
          frame   |-> FrameBase + fi + (IF s = fileset.odd THEN OddBias ELSE 0),
          shutter |-> IF fileset.closed > 0 /\ fi <= fileset.closed
                      THEN 0 ELSE fileset.openVal ]

\* the sync word, the coords and the payload of record p of sector s
StripeBody(s, p) ==
    LET k == fileset.skew[s] + p
        fi == FrameIdx(k)
        j == FramePos(k)
    IN  [ sync   |-> IF fileset.bad = <<fi, s, j>> THEN BAD_SYNC ELSE SYNC_WORD,
          coords |-> Coords(j),
          data   |-> Payload(fi, s, j) ]

\* np.fromfile(binfile, count=n) after binfile.seek(p * 0x5758): the records
\* p .. p+n-1 that exist
FromFile(s, p, n) ==
    LET avail == IF NumRecords(s) - p < 0 THEN 0
                 ELSE IF NumRecords(s) - p < n THEN NumRecords(s) - p ELSE n
    IN  [x \in 1 .. avail |-> Stripe(s, p + x - 1)]

---------------------------------------------------------------------------
(* Filesets. *)

\* no stripe has a corrupted sync word; every payload byte is 0 but the names
NoBad == <<-1, -1, -1>>
Flat == [top |-> 0, step |-> 0, bot |-> 0]

\* every sector is on time or late by the same d records
Skews == { [s \in Sectors |-> IF s \in L THEN d ELSE 0] :
           L \in SUBSET {0, 1, NumSectors - 2, NumSectors - 1},
           d \in 1 .. MaxSkew }

\* complete streams that differ only by their skew; frame 0 is the (possibly
\* empty) incomplete frame; with closed > 0 the shutter is closed in it and
\* in the first `closed` complete frames
SkewedFilesets ==
    { [ skew |-> sk, late |-> SetMax({sk[s] : s \in Sectors}), partial |-> pa, nframes |-> MaxClosed + 1, closed |-> cl,
        openVal |-> ov, blockBase |-> U32Of(BlockBase), short |-> NoSector,
        shortLen |-> 0, odd |-> NoSector, bad |-> NoBad, pix |-> Flat ] :
      sk \in Skews, pa \in 0 .. MaxPartial, cl \in 0 .. MaxClosed,
      ov \in OpenVals }

OneLate == { [s \in Sectors |-> IF s = l THEN d ELSE 0] :
             l \in {0, NumSectors - 1, NoSector}, d \in 1 .. MaxSkew }

NeverOpen == MaxClosed + 2

\* a short complete stream, whose shutter may never open
Fileset(sk, pa, cl) ==
    [ skew |-> sk, late |-> SetMax({sk[s] : s \in Sectors}), partial |-> pa, nframes |-> 1, closed |-> cl, openVal |-> 1,
      blockBase |-> U32Of(BlockBase), short |-> NoSector, shortLen |-> 0,
      odd |-> NoSector, bad |-> NoBad, pix |-> Flat ]

\* streams in which a scan may not find what it looks for: a shutter that
\* never opens, a block counter that wraps, a truncated file, a sector with
\* wrong frame ids
DamagedFilesets ==
    { Fileset(sk, pa, cl) :
        sk \in OneLate, pa \in {0, MaxPartial}, cl \in {0, NeverOpen} }
    \cup
    { [Fileset(sk, pa, 0) EXCEPT !.blockBase = U32Max] :
        sk \in OneLate, pa \in {0, MaxPartial} }
    \cup
    { [Fileset(sk, pa, 0) EXCEPT !.short = sh, !.shortLen = sl] :
        sk \in OneLate, pa \in {0, MaxPartial},
        sh \in {0, NumSectors - 1}, sl \in 0 .. MaxSkew }
    \cup
    { [Fileset(sk, pa, 0) EXCEPT !.odd = od] :
        sk \in OneLate, pa \in {0, MaxPartial}, od \in {0, NumSectors - 1} }

\* a fileset whose sectors differ only by their skew, complete
SkewOnly == fileset.short = NoSector /\ fileset.odd = NoSector

---------------------------------------------------------------------------
(* Reading a constructed dataset.                                          *)
(*                                                                         *)
(* An image (1860 x 2048) is held by region: region 32 * s + 16 * yb + xb  *)
(* is the 930 x 16 block of sector s at block row yb and block column xb,  *)
(* and its value is the pair <<even-column sample, odd-column sample>> of  *)
(* the decoded payload (a payload repeats one group of 3 bytes, so the     *)
(* decoded block repeats one pair of samples along each row).              *)

Regions == 0 .. NumSectors * BLOCKS_PER_SECTOR_PER_FRAME - 1

\* _convert_uint12 on one group of 3 bytes: the two 12-bit samples
ConvertUint12(b) ==
    << b[1] + (b[2] % 16) * BYTE, (b[2] \div 16) + b[3] * 16 >>

\* the region fullImage[c[1]:c[3]+1, c[0]+256*s : c[2]+256*s+1] of a stripe
RegionOf(s, c) ==
    BLOCKS_PER_SECTOR_PER_FRAME * s
        + STRIPES_PER_ROW * (c[2] \div STRIPE_HEIGHT) + c[1] \div STRIPE_WIDTH

\* np.zeros([1860,2048]); err: an exception left _grab_frame
ZeroImage == [err |-> FALSE, px |-> [g \in Regions |-> <<0, 0>>]]

\* PlaceStripes with `continue` written for `break`
RECURSIVE PlaceStripesSkip(_, _, _, _)
PlaceStripesSkip(img, s, p, jj) ==
    IF jj = BLOCKS_PER_SECTOR_PER_FRAME THEN img
    ELSE IF p + jj >= NumRecords(s) THEN [img EXCEPT !.err = TRUE]
    ELSE LET st == StripeBody(s, p + jj) IN
         IF st.sync # SYNC_WORD
         THEN PlaceStripesSkip(img, s, p, jj + 1)
         ELSE PlaceStripesSkip(
                  [img EXCEPT !.px[RegionOf(s, st.coords)] = ConvertUint12(st.data)],
                  s, p, jj + 1)

\* the loop `for jj in range(0,32)` of _grab_frame over the stripes read at
\* record p of sector s, from stripe jj on: stripe[jj] of a short read raises
\* IndexError; a wrong sync word ends the loop (`break`)
RECURSIVE PlaceStripes(_, _, _, _)
PlaceStripes(img, s, p, jj) ==
    IF jj = BLOCKS_PER_SECTOR_PER_FRAME THEN img
    ELSE IF p + jj >= NumRecords(s) THEN [img EXCEPT !.err = TRUE]
    ELSE LET st == StripeBody(s, p + jj) IN
         IF st.sync # SYNC_WORD
         THEN img
         ELSE PlaceStripes(
                  [img EXCEPT !.px[RegionOf(s, st.coords)] = ConvertUint12(st.data)],
                  s, p, jj + 1)

\* the loop `for ii in range(8)` of _grab_frame from sector s on
RECURSIVE PlaceSectors(_, _, _)
PlaceSectors(img, f, s) ==
    IF s = NumSectors \/ img.err THEN img
    ELSE PlaceSectors(
             PlaceStripes(img, s,
                          f * BLOCKS_PER_SECTOR_PER_FRAME + shutter_offsets[s], 0),
             f, s + 1)

\* _grab_frame(frame)
GrabFrame(f) == PlaceSectors(ZeroImage, f, 0)

\* fullImage[r, c]
PixelAt(px, r, c) ==
    px[BLOCKS_PER_SECTOR_PER_FRAME * (c \div SECTOR_WIDTH)
         + STRIPES_PER_ROW * (r \div STRIPE_HEIGHT)
         + (c % SECTOR_WIDTH) \div STRIPE_WIDTH][1 + (c % 2)]

\* a value stored in an int16 array
Int16(x) == ((x + 32768) % U16) - 32768

RECURSIVE ColumnSum(_, _, _)
ColumnSum(px, r, c) ==
    IF r = IMAGE_HEIGHT THEN 0 ELSE PixelAt(px, r, c) + ColumnSum(px, r + 1, c)

\* _subtract_readout_noise: darkref[c] = np.average(DP[1792:, c]) as int16
\* (the samples are not negative, so the cast truncates downwards)
Darkref(px, c) == Int16(ColumnSum(px, HIDDEN_ROW, c) \div (IMAGE_HEIGHT - HIDDEN_ROW))

\* self._user_dark_reference[r, c] after the setter stored an array filled
\* with `level`
UserDark(level, r, c) ==
    IF r < HIDDEN_ROW /\ c < ACTIVE_WIDTH THEN Int16(level) ELSE 0

\* DP[r, c] after lines 126-130, for 0 <= r < 1860 and 0 <= c < 2048; the
\* branch taken is that of the flags (user = "unset": the attribute
\* _user_noise_reduction does not exist and the test raises)
Corrected(px, hidden, user, dark, r, c) ==
    IF hidden THEN Int16(PixelAt(px, r, c) - Darkref(px, c))
    ELSE IF user = "True" THEN Int16(PixelAt(px, r, c) - UserDark(dark.level, r, c))
    ELSE Int16(PixelAt(px, r, c))

---------------------------------------------------------------------------
(* Indices.  An index is an int, a slice or an index array; an absent      *)
(* bound of a slice (None) is <<>>, a given one is <<n>>.                  *)

None == <<>>
Some(n) == <<n>>
Idx(n) == [kind |-> "int", v |-> <<n>>]
Slice(a, b, c) == [kind |-> "slice", v |-> <<a, b, c>>]
Arr(q) == [kind |-> "array", v |-> q]
Full == Slice(None, None, None)

\* Python's `x or d` on a slice bound: None and 0 are both false
OrElse(x, d) == IF x = None \/ x = Some(0) THEN d ELSE x[1]

\* np.arange(start, stop, step) on ints, step # 0
Arange(start, stop, step) ==
    LET n == IF step > 0
             THEN IF stop > start THEN (stop - start + step - 1) \div step ELSE 0
             ELSE IF start > stop THEN (start - stop - step - 1) \div (0 - step) ELSE 0
    IN  [k \in 1 .. n |-> start + (k - 1) * step]

\* lines 375-383: the indices of one axis of size nMax
Inds(e, nMax) ==
    IF e.kind = "slice"
    THEN Arange(OrElse(e.v[1], 0), OrElse(e.v[2], nMax), OrElse(e.v[3], 1))
    ELSE e.v

\* np.meshgrid(xInds, yInds, indexing=...), lines 385-388
Meshgrid(xInds, yInds, indexing) ==
    IF indexing = "ij"
    THEN [ shape |-> <<Len(xInds), Len(yInds)>>,
           x |-> [p \in (1 .. Len(xInds)) \X (1 .. Len(yInds)) |-> xInds[p[1]]],
           y |-> [p \in (1 .. Len(xInds)) \X (1 .. Len(yInds)) |-> yInds[p[2]]] ]
    ELSE [ shape |-> <<Len(yInds), Len(xInds)>>,
           x |-> [p \in (1 .. Len(yInds)) \X (1 .. Len(xInds)) |-> xInds[p[2]]],
           y |-> [p \in (1 .. Len(yInds)) \X (1 .. Len(xInds)) |-> yInds[p[1]]] ]

\* _parse_slices(i, mode)
ParseSlices(ix, mode) ==
    IF Len(ix) # 2 THEN [status |-> "error", value |-> "AssertionError"]
    ELSE IF mode \notin {"real", "diffraction"}
    THEN [status |-> "error", value |-> "ValueError"]
    ELSE LET xMax == IF mode = "real" THEN shape[1] ELSE shape[3]
             yMax == IF mode = "real" THEN shape[2] ELSE shape[4]
         IN  [ status |-> "ok",
               value |-> Meshgrid(Inds(ix[1], xMax), Inds(ix[2], yMax),
                                  IF mode = "diffraction" THEN "ij" ELSE "xy") ]

Values(m) == { m[p] : p \in DOMAIN m }

\* DP[Qx, Qy] wraps a negative index once and raises IndexError beyond
InImage(r, c) ==
    /\ 0 - IMAGE_HEIGHT <= r /\ r < IMAGE_HEIGHT
    /\ 0 - IMAGE_WIDTH <= c /\ c < IMAGE_WIDTH

Wrap(n, size) == IF n < 0 THEN n + size ELSE n

NotOne(n) == n # 1

\* np.squeeze on a shape
Squeeze(sh) == SelectSeq(sh, NotOne)

\* DP[Qx, Qy] of the corrected image of pixels px
Crop(px, Q, hidden, user, dark) ==
    [ q \in DOMAIN Q.x |->
        Corrected(px, hidden, user, dark,
                  Wrap(Q.x[q], IMAGE_HEIGHT), Wrap(Q.y[q], IMAGE_WIDTH)) ]

\* the loops of __getitem__ (lines 120-133) from pass k on; sy runs in the
\* outer and sx in the inner loop, pass k is at p = (sx, sy) counted from 1.
\* A pass raises on a negative scan index (np.ravel_multi_index), on a short
\* read, on the missing attribute and on a detector index outside the image.
RECURSIVE ReadLoop(_, _, _, _, _, _, _)
ReadLoop(outdata, R, Q, hidden, user, dark, k) ==
    IF k = R.shape[1] * R.shape[2]
    THEN [ status |-> "ok",
           value |-> [ shape |-> R.shape \o Q.shape,
                       squeezed |-> Squeeze(R.shape \o Q.shape),
                       outdata |-> outdata ] ]
    ELSE LET p == <<(k % R.shape[1]) + 1, (k \div R.shape[1]) + 1>>
             img == GrabFrame(R.x[p] + shape[1] * R.y[p])
         IN  IF R.x[p] < 0 \/ R.y[p] < 0
             THEN [status |-> "error", value |-> "ValueError"]
             ELSE IF img.err
             THEN [status |-> "error", value |-> "IndexError"]
             ELSE IF ~hidden /\ user = "unset"
             THEN [status |-> "error", value |-> "AttributeError"]
             ELSE IF \E q \in DOMAIN Q.x : ~InImage(Q.x[q], Q.y[q])
             THEN [status |-> "error", value |-> "IndexError"]
             ELSE ReadLoop([outdata EXCEPT ![p] = Crop(img.px, Q, hidden, user, dark)],
                           R, Q, hidden, user, dark, k + 1)

\* lines 111-135 of __getitem__ on the coordinate arrays R and Q, with the
\* noise flags given; outdata[p][q] is outdata[sx, sy, qx, qy] for
\* p = (sx, sy) and q = (qx, qy), counted from 1
ReadFrames(R, Q, hidden, user, dark) ==
    IF R.shape[1] * R.shape[2] = 0 \/ Q.shape[1] * Q.shape[2] = 0
    THEN [status |-> "error", value |-> "ValueError"]     \* max() of an empty array
    ELSE IF \/ SetMax(Values(R.x)) >= shape[1] \/ SetMax(Values(R.y)) >= shape[2]
            \/ SetMax(Values(Q.x)) >= shape[3] \/ SetMax(Values(Q.y)) >= shape[4]
    THEN [status |-> "error", value |-> "AssertionError"]
    ELSE ReadLoop([p \in DOMAIN R.x |-> [q \in DOMAIN Q.x |-> 0]],
                  R, Q, hidden, user, dark, 0)

\* __getitem__(i) with the noise flags given
GetItemWith(ix, hidden, user, dark) ==
    IF Len(ix) # 4 THEN [status |-> "error", value |-> "AssertionError"]
    ELSE ReadFrames(ParseSlices(<<ix[1], ix[2]>>, "real").value,
                    ParseSlices(<<ix[3], ix[4]>>, "diffraction").value,
                    hidden, user, dark)

\* self[i]
GetItem(ix) ==
    GetItemWith(ix, hidden_stripe_noise_reduction, user_noise_reduction,
                user_dark_reference)

Maximum(a, b) == IF a > b THEN a ELSE b

\* the pass of max's loops (lines 194-196 or 204-206) number k, and the
\* passes after it: an exception of self[Rx,Ry,:,:] leaves max
RECURSIVE MaxLoop(_, _, _)
MaxLoop(acc, axis, k) ==
    IF k = shape[1] * shape[2] THEN [status |-> "ok", value |-> acc]
    ELSE LET Rx == k % shape[1]
             Ry == k \div shape[1]
             read == GetItem(<<Idx(Rx), Idx(Ry), Full, Full>>)
         IN  IF read.status = "error" THEN read
             ELSE IF axis = <<0, 1>>
             THEN MaxLoop([q \in DOMAIN acc |->
                              Maximum(acc[q], read.value.outdata[<<1, 1>>][q])],
                          axis, k + 1)
             ELSE MaxLoop([acc EXCEPT ![<<Rx + 1, Ry + 1>>] =
                              SetMax(Values(read.value.outdata[<<1, 1>>]))],
                          axis, k + 1)

\* max(axis): the accumulator starts as np.zeros
Max(axis) ==
    IF axis \notin {<<0, 1>>, <<2, 3>>}
    THEN [status |-> "error", value |-> "AssertionError"]
    ELSE IF axis = <<0, 1>>
    THEN MaxLoop([q \in (1 .. shape[3]) \X (1 .. shape[4]) |-> 0], axis, 0)
    ELSE MaxLoop([p \in (1 .. shape[1]) \X (1 .. shape[2]) |-> 0], axis, 0)

---------------------------------------------------------------------------
(* The dataset after construction, its client and the operations. *)

NoDark == [set |-> FALSE, level |-> 0]
NoCall == [op |-> "none", arg |-> <<>>]
NoOut == [op |-> "none", status |-> "none", value |-> <<>>]

\* shape when the metadata has no detector size (lines 76-77), and the shape
\* a small detector's metadata gives
DefaultShape == <<ScanNx, ScanNy, HIDDEN_ROW, ACTIVE_WIDTH>>
SmallShape == <<ScanNx, ScanNy, SmallQ, SmallQ>>

\* the fields the sync does not look at: a corrupted sync word, the levels
Levels == { Flat,
            [top |-> 33, step |-> 17, bot |-> 83],
            [top |-> 83, step |-> 17, bot |-> 33] }

BadStripes == { <<fi, s, j>> : fi \in {1, 2}, s \in {0, NumSectors - 1},
                               j \in {0, 5, BLOCKS_PER_SECTOR_PER_FRAME - 1} }

\* complete streams of ScanNx * ScanNy frames with the shutter open
DataFileset(sk, bad, pix) ==
    [ skew |-> sk, late |-> SetMax({sk[s] : s \in Sectors}), partial |-> 0, nframes |-> ScanNx * ScanNy, closed |-> 0,
      openVal |-> 1, blockBase |-> U32Of(BlockBase), short |-> NoSector,
      shortLen |-> 0, odd |-> NoSector, bad |-> bad, pix |-> pix ]

\* the offsets _find_offsets leaves on such streams
SyncedOffsets == [s \in Sectors |-> Boundary - fileset.skew[s]]

\* index pairs for the scan axes and for the detector axes
ScanIdx ==
    { <<Idx(0), Idx(0)>>,
      <<Idx(ScanNx - 1), Idx(ScanNy - 1)>>,
      <<Idx(ScanNx), Idx(0)>>,
      <<Idx(-1), Idx(0)>>,
      <<Idx(0), Idx(-1)>>,
      <<Full, Full>>,
      <<Slice(Some(0), Some(1), None), Slice(Some(1), None, None)>>,
      <<Arr(<<1, 0>>), Arr(<<0, ScanNy - 1>>)>>,
      <<Slice(None, Some(0), None), Idx(0)>>,
      <<Arr(<<>>), Idx(0)>>,
      <<Slice(Some(1), Some(1), None), Idx(0)>>,
      <<Arr(<<0, -1>>), Idx(0)>> }

DetIdx ==
    { <<Idx(0), Idx(0)>>,
      <<Idx(1000), Idx(300)>>,
      <<Idx(-1), Idx(0)>>,
      <<Idx(0), Idx(-1)>>,
      <<Idx(HIDDEN_ROW), Idx(0)>>,
      <<Idx(0), Idx(ACTIVE_WIDTH)>>,
      <<Arr(<<0, HIDDEN_ROW - 1>>), Arr(<<1, ACTIVE_WIDTH - 1>>)>>,
      <<Slice(Some(10), Some(12), None), Slice(Some(255), Some(257), None)>>,
      <<Idx(0 - IMAGE_HEIGHT - 1), Idx(0)>>,
      <<Slice(Some(-2), Some(1), None), Idx(1)>> }

SmallDetIdx ==
    { <<Full, Full>>,
      <<Idx(SmallQ), Idx(0)>>,
      <<Idx(-1), Idx(-1)>>,
      <<Slice(None, Some(0), None), Full>> }

\* the calls a client makes
GetItemCalls ==
    { [op |-> "getitem", arg |-> r \o q] :
        r \in ScanIdx, q \in {<<Idx(0), Idx(0)>>, <<Idx(1000), Idx(300)>>} }
    \cup
    { [op |-> "getitem", arg |-> r \o q] :
        r \in {<<Idx(0), Idx(0)>>, <<Idx(ScanNx - 1), Idx(ScanNy - 1)>>},
        q \in DetIdx }
    \cup
    { [op |-> "getitem", arg |-> <<Idx(0), Idx(0), Idx(0)>>] }

SmallCalls ==
    { [op |-> "getitem", arg |-> r \o q] :
        r \in { <<Idx(0), Idx(0)>>, <<Full, Full>>,
                 <<Slice(Some(0), Some(1), None), Slice(Some(1), None, None)>> },
        q \in SmallDetIdx }
    \cup
    { [op |-> "max", arg |-> a] : a \in {<<0, 1>>, <<2, 3>>, <<0>>} }

GrabCalls == { [op |-> "grab", arg |-> f] : f \in 0 .. 1 }

\* a constructed dataset: the files attached, the offsets found
Constructed ==
    /\ pc = "ready"
    /\ bin_files = [s \in Sectors |-> "open"]
    /\ closes = [s \in Sectors |-> 0]
    /\ i = 0
    /\ frame = 0
    /\ block_id = U32Of(0)
    /\ shutter_offsets = SyncedOffsets
    /\ stripe = <<>>
    /\ first_frame = <<>>
    /\ next_frame = -1
    /\ sync = TRUE
    /\ notOpen = [s \in Sectors |-> 0]
    /\ added = [s \in Sectors |-> 0]
    /\ hidden_stripe_noise_reduction \in BOOLEAN
    /\ user_noise_reduction = "unset"
    /\ user_dark_reference = NoDark
    /\ log = <<IF hidden_stripe_noise_reduction THEN "auto" ELSE "off">>
    /\ out = NoOut

Init ==
    /\ \/ /\ fileset \in { DataFileset(sk, bad, Flat) :
                             sk \in OneLate, bad \in BadStripes \cup {NoBad} }
          /\ shape = DefaultShape
          /\ call \in GrabCalls
       \/ /\ fileset \in { DataFileset(sk, NoBad, pix) :
                             sk \in {[s \in Sectors |-> 0]}, pix \in Levels }
          /\ \/ shape = DefaultShape /\ call \in GetItemCalls
             \/ shape = SmallShape /\ call \in SmallCalls
    /\ Constructed

\* the state of the data operations while an object is constructed
NoData ==
    /\ shape = DefaultShape
    /\ hidden_stripe_noise_reduction = TRUE
    /\ user_noise_reduction = "unset"
    /\ user_dark_reference = NoDark
    /\ call = NoCall
    /\ out = NoOut
    /\ log = <<>>

\* The client changes the dark reference up to MaxOps times, then makes its
\* call.
\* dark_reference = dr (lines 346-355), dr filled with `level`; a dr of
\* another shape fails the assertion and changes nothing
SetDarkReference ==
    /\ pc = "ready"
    /\ out = NoOut
    /\ Len(log) <= MaxOps
    /\ \E drShape \in {<<HIDDEN_ROW, ACTIVE_WIDTH>>, <<IMAGE_HEIGHT, IMAGE_WIDTH>>},
          level \in DarkLevels :
          IF drShape # <<HIDDEN_ROW, ACTIVE_WIDTH>>
          THEN UNCHANGED <<user_dark_reference, hidden_stripe_noise_reduction,
                           user_noise_reduction, log>>
          ELSE /\ user_dark_reference' = [set |-> TRUE, level |-> level]
               /\ hidden_stripe_noise_reduction' = FALSE
               /\ user_noise_reduction' = "True"
               /\ log' = Append(log, "set")
    /\ UNCHANGED <<fileset, bin_files, closes, syncVars, pc, shape, call, out>>

\* del dark_reference (lines 357-360): `del self._user_dark_reference` raises
\* when there is none, and changes nothing
DelDarkReference ==
    /\ pc = "ready"
    /\ out = NoOut
    /\ Len(log) <= MaxOps
    /\ IF ~user_dark_reference.set
       THEN UNCHANGED <<user_dark_reference, user_noise_reduction, log>>
       ELSE /\ user_dark_reference' = NoDark
            /\ user_noise_reduction' = "False"
            /\ log' = Append(log, "del")
    /\ UNCHANGED <<fileset, bin_files, closes, syncVars, pc, shape, call, out,
                   hidden_stripe_noise_reduction>>

readVars == <<fileset, bin_files, closes, syncVars, pc, shape, call,
              hidden_stripe_noise_reduction, user_noise_reduction,
              user_dark_reference, log>>

\* the client's dataset[i]
CallGetItem ==
    /\ pc = "ready"
    /\ call.op = "getitem"
    /\ out = NoOut
    /\ \E r \in {GetItem(call.arg)} :
          out' = [op |-> "getitem", status |-> r.status, value |-> r.value]
    /\ UNCHANGED readVars

\* the client's dataset.max(axis)
CallMax ==
    /\ pc = "ready"
    /\ call.op = "max"
    /\ out = NoOut
    /\ \E r \in {Max(call.arg)} :
          out' = [op |-> "max", status |-> r.status, value |-> r.value]
    /\ UNCHANGED readVars

\* _grab_frame(frame) on its own
CallGrabFrame ==
    /\ pc = "ready"
    /\ call.op = "grab"
    /\ out = NoOut
    /\ \E img \in {GrabFrame(call.arg)} :
          out' = IF img.err
                 THEN [op |-> "grab", status |-> "error", value |-> "IndexError"]
                 ELSE [op |-> "grab", status |-> "ok", value |-> img.px]
    /\ UNCHANGED readVars

Next ==
    \/ SetDarkReference
    \/ DelDarkReference
    \/ CallGetItem
    \/ CallMax
    \/ CallGrabFrame

Spec == Init /\ [][Next]_vars

\* _parse_slices on its own: the slices on the first axis, of size shape[0]
\* or shape[2], with index 0 on the second
SliceBounds == {None, Some(-1), Some(0), Some(1), Some(2), Some(MaxStop)}

ParseCalls ==
    { [op |-> "parse", arg |-> <<ix, mode>>] :
        ix \in { <<Slice(a, b, c), Idx(0)>> :
                   a \in SliceBounds, b \in SliceBounds,
                   c \in {None, Some(0), Some(1), Some(2)} }
              \cup { <<Idx(1), Idx(0)>>, <<Arr(<<1, 0>>), Arr(<<0>>)>>, <<Full>> },
        mode \in {"real", "diffraction", "reciprocal"} }

InitSlices ==
    /\ fileset \in { DataFileset([s \in Sectors |-> 0], NoBad, Flat) }
    /\ shape = SmallShape
    /\ call \in ParseCalls
    /\ Constructed

CallParseSlices ==
    /\ pc = "ready"
    /\ call.op = "parse"
    /\ out = NoOut
    /\ \E r \in {ParseSlices(call.arg[1], call.arg[2])} :
          out' = [op |-> "parse", status |-> r.status, value |-> r.value]
    /\ UNCHANGED readVars

NextSlices == CallParseSlices

SpecSlices == InitSlices /\ [][NextSlices]_vars

---------------------------------------------------------------------------
(* Construction. *)

TypeOK == pc \in {"new", "attach", "first", "blockscan", "check1", "framescan",
                  "check2", "shutter", "ready", "failed", "deleted"}

InitSyncVars ==
    /\ i = 0
    /\ frame = 0
    /\ block_id = U32Of(0)
    /\ shutter_offsets = [s \in Sectors |-> 0]
    /\ stripe = <<>>
    /\ first_frame = <<>>
    /\ next_frame = -1
    /\ sync = TRUE
    /\ notOpen = [s \in Sectors |-> 0]
    /\ added = [s \in Sectors |-> 0]

\* before construction
InitCtor ==
    /\ fileset \in { f \in DamagedFilesets : f.late = 0 \/ f.short # NoSector }
    /\ pc = "new"
    /\ bin_files = [s \in Sectors |-> "None"]
    /\ closes = [s \in Sectors |-> 0]
    /\ InitSyncVars
    /\ NoData

\* at the call of _find_offsets (line 90): the 8 files are attached
AtFindOffsets ==
    /\ pc = "first"
    /\ bin_files = [s \in Sectors |-> "open"]
    /\ closes = [s \in Sectors |-> 0]
    /\ InitSyncVars
    /\ NoData

InitSync == fileset \in SkewedFilesets \cup DamagedFilesets /\ AtFindOffsets

InitScan == fileset \in DamagedFilesets /\ AtFindOffsets

\* __init__, lines 44-48: the file-count assertions, before any file is opened
CheckFiles ==
    /\ pc = "new"
    /\ \E nbin \in {NumSectors - 1, NumSectors, NumSectors + 1} :
          pc' = IF nbin = NumSectors THEN "attach" ELSE "failed"
    /\ UNCHANGED <<dataVars, fileset, bin_files, closes, syncVars>>

\* _attach_to_files: opens the files in order; open() of file k may raise
\* (k = NumSectors: none does), leaving the later entries None
AttachToFiles ==
    /\ pc = "attach"
    /\ \E k \in 0 .. NumSectors :
          /\ bin_files' = [s \in Sectors |-> IF s < k THEN "open" ELSE "None"]
          /\ pc' = IF k = NumSectors THEN "first" ELSE "failed"
    /\ UNCHANGED <<dataVars, fileset, closes, syncVars>>

\* _find_offsets, lines 219-229: the first stripe of every sector, and the
\* largest block id among them.  An empty file makes the assignment raise.
ReadFirstBlocks ==
    /\ pc = "first"
    /\ IF \E s \in Sectors : Len(FromFile(s, 0, 1)) = 0
       THEN /\ pc' = "failed"
            /\ UNCHANGED block_id
       ELSE /\ block_id' = U32SetMax({FromFile(s, 0, 1)[1].block : s \in Sectors})
            /\ pc' = "blockscan"
    /\ i' = 0
    /\ frame' = 0
    /\ UNCHANGED <<dataVars, fileset, bin_files, closes, shutter_offsets, stripe,
                   first_frame, next_frame, sync, notOpen, added>>

\* ScanExit with `=` written for `+=`
ScanExitAssign(read, nextpc) ==
    /\ shutter_offsets' = [shutter_offsets EXCEPT ![i] = frame]
    /\ frame' = 0
    /\ stripe' = read
    /\ IF i = NumSectors - 1
       THEN /\ i' = 0
            /\ first_frame' = [x \in 1 .. Len(read) |-> read[x].frame]
            /\ pc' = nextpc
       ELSE /\ i' = i + 1
            /\ UNCHANGED <<first_frame, pc>>

\* the straight-line code that follows a scan loop's exit for sector i:
\* the offset is advanced, the next sector starts, and after the last sector
\* first_frame is taken from the last array read
ScanExit(read, nextpc) ==
    /\ shutter_offsets' = [shutter_offsets EXCEPT ![i] = @ + frame]
    /\ frame' = 0
    /\ stripe' = read
    /\ IF i = NumSectors - 1
       THEN /\ i' = 0
            /\ first_frame' = [x \in 1 .. Len(read) |-> read[x].frame]
            /\ pc' = nextpc
       ELSE /\ i' = i + 1
            /\ UNCHANGED <<first_frame, pc>>

\* ScanRead without the `frame += 1` of a miss
ScanReadStuck(p, key, target, nextpc) ==
    LET read == FromFile(i, p, 1) IN
    IF Len(read) # 0 /\ read[1][key] = target
    THEN ScanExit(read, nextpc)
    ELSE /\ stripe' = read
         /\ UNCHANGED <<i, frame, shutter_offsets, first_frame, pc>>

\* one pass of a `while sync == False` loop that reads one stripe at record p
\* and tests stripe[key] == target.  At end of file the array is empty, and so
\* are `sync` and `sync == False`: the truth value of an empty array is False
\* with a deprecation warning, or an error, depending on the numpy in use.
ScanRead(p, key, target, nextpc) ==
    LET read == FromFile(i, p, 1) IN
    IF Len(read) = 0
    THEN \/ ScanExit(read, nextpc)
         \/ /\ pc' = "failed"
            /\ stripe' = read
            /\ UNCHANGED <<i, frame, shutter_offsets, first_frame>>
    ELSE IF read[1][key] = target
         THEN ScanExit(read, nextpc)
         ELSE /\ frame' = frame + 1
              /\ stripe' = read
              /\ UNCHANGED <<i, shutter_offsets, first_frame, pc>>

\* lines 231-244: block alignment, one stripe at a time from the file's start
BlockScanRead ==
    /\ pc = "blockscan"
    /\ ScanRead(frame, "block", block_id, "check1")
    /\ UNCHANGED <<dataVars, fileset, bin_files, closes, block_id, next_frame, sync,
                   notOpen, added>>

\* the 32 stripes of every sector at its offset, as the checks read them
FrameRead(s) == FromFile(s, shutter_offsets[s], BLOCKS_PER_SECTOR_PER_FRAME)

\* stripe[j] of a short read raises IndexError
ShortRead == \E s \in Sectors : Len(FrameRead(s)) < BLOCKS_PER_SECTOR_PER_FRAME

\* positions j of sector s's 32 stripes whose frame id differs from
\* first_frame, when the read is not short
DiffIn(s) ==
    { j \in 0 .. BLOCKS_PER_SECTOR_PER_FRAME - 1 :
        Stripe(s, shutter_offsets[s] + j).frame # first_frame[1] }

Differing == { s \in Sectors : DiffIn(s) # {} }

\* lines 247-258: is the first frame complete?  next_frame is the frame id of
\* the last differing stripe, in the order the loops read
CheckFirstFrame ==
    /\ pc = "check1"
    /\ IF ShortRead
       THEN /\ pc' = "failed"
            /\ UNCHANGED <<sync, next_frame>>
       ELSE IF Differing = {}
       THEN /\ sync' = TRUE
            /\ pc' = "shutter"
            /\ UNCHANGED next_frame
       ELSE /\ sync' = FALSE
            /\ pc' = "framescan"
            /\ \E s \in Differing :
                 /\ \A t \in Differing : t <= s
                 /\ \E j \in DiffIn(s) :
                      /\ \A m \in DiffIn(s) : m <= j
                      /\ next_frame' = Stripe(s, shutter_offsets[s] + j).frame
    /\ UNCHANGED <<dataVars, fileset, bin_files, closes, i, frame, block_id,
                   shutter_offsets, stripe, first_frame, notOpen, added>>

\* lines 261-276: the re-scan for next_frame, from the sector's offset on
FrameScanRead ==
    /\ pc = "framescan"
    /\ ScanRead(frame + shutter_offsets[i], "frame", next_frame, "check2")
    /\ UNCHANGED <<dataVars, fileset, bin_files, closes, block_id, next_frame, sync,
                   notOpen, added>>

\* lines 278-290: the completeness check once more; its result is only printed
CheckNewFrame ==
    /\ pc = "check2"
    /\ IF ShortRead
       THEN /\ pc' = "failed"
            /\ UNCHANGED sync
       ELSE /\ sync' = (Differing = {})
            /\ pc' = "shutter"
    /\ UNCHANGED <<dataVars, fileset, bin_files, closes, i, frame, block_id,
                   shutter_offsets, stripe, first_frame, next_frame, notOpen,
                   added>>

\* `while shutter == False` with `if shutter == 0: frame += 1`: the scan goes
\* on exactly when the field read is 0
ShutterContinues(shutter) == shutter = 0

\* lines 294-306: one pass of the shutter scan of sector i, reading the first
\* stripe of candidate frame `frame`; stripe[0] of an empty read raises
ShutterScanRead ==
    /\ pc = "shutter"
    /\ LET read == FromFile(i, frame * BLOCKS_PER_SECTOR_PER_FRAME + shutter_offsets[i], 1) IN
       /\ stripe' = read
       /\ IF Len(read) = 0
          THEN /\ pc' = "failed"
               /\ UNCHANGED <<i, frame, shutter_offsets, notOpen, added>>
          ELSE /\ notOpen' = [notOpen EXCEPT ![i] =
                                 @ + (IF read[1].shutter # 1 THEN 1 ELSE 0)]
               /\ IF ShutterContinues(read[1].shutter)
                  THEN /\ frame' = frame + 1
                       /\ UNCHANGED <<i, shutter_offsets, added, pc>>
                  ELSE /\ shutter_offsets' = [shutter_offsets EXCEPT ![i] =
                              @ + frame * BLOCKS_PER_SECTOR_PER_FRAME]
                       /\ added' = [added EXCEPT ![i] =
                              frame * BLOCKS_PER_SECTOR_PER_FRAME]
                       /\ frame' = 0
                       /\ IF i = NumSectors - 1
                          THEN i' = 0 /\ pc' = "ready"
                          ELSE i' = i + 1 /\ UNCHANGED pc
    /\ UNCHANGED <<dataVars, fileset, bin_files, closes, block_id, first_frame,
                   next_frame, sync>>

\* Reached with the loop written range(7)
ReachedShort == { s \in Sectors : s < NumSectors - 1 /\ \A t \in 0 .. s : bin_files[t] # "None" }

\* the handles __del__ reaches: it closes in order and stops at the first
\* entry that is None (or at once when _bin_files was never created)
Reached == { s \in Sectors : \A t \in 0 .. s : bin_files[t] # "None" }

\* __del__: runs when the object is dropped, after a failed __init__ as well
Del ==
    /\ pc \in {"ready", "failed"}
    /\ bin_files' = [s \in Sectors |->
                        IF s \in Reached THEN "closed" ELSE bin_files[s]]
    /\ closes' = [s \in Sectors |->
                        IF s \in Reached THEN closes[s] + 1 ELSE closes[s]]
    /\ pc' = "deleted"
    /\ UNCHANGED <<dataVars, fileset, syncVars>>

\* _find_offsets alone
NextSync ==
    \/ ReadFirstBlocks
    \/ BlockScanRead
    \/ CheckFirstFrame
    \/ FrameScanRead
    \/ CheckNewFrame
    \/ ShutterScanRead

SpecSync == InitSync /\ [][NextSync]_vars

\* the interpreter runs _find_offsets to its end
FairSync == InitScan /\ [][NextSync]_vars /\ WF_vars(NextSync)

\* the life of an object: construction, then teardown
NextCtor ==
    \/ CheckFiles
    \/ AttachToFiles
    \/ NextSync
    \/ Del

SpecCtor == InitCtor /\ [][NextCtor]_vars

\* CPython runs the constructor to its end and finalizes a dropped object
FairCtor == SpecCtor /\ WF_vars(NextCtor)

---------------------------------------------------------------------------
(* Synchronization. *)

FinalStripe(s) == Stripe(s, shutter_offsets[s])

\* C1: when _find_offsets returns on streams that differ only by a whole
\* number of records, the stripes at the final offsets of the 8 sectors all
\* carry the same frame id.
C1_FramesAgree ==
    (pc = "ready" /\ SkewOnly) =>
        \A s, t \in Sectors : FinalStripe(s).frame = FinalStripe(t).frame

\* _find_offsets returned on skewed streams after all three phases moved an
\* offset
C1_Witness ==
    /\ pc = "ready"
    /\ SkewOnly
    /\ \E s, t \in Sectors : fileset.skew[s] # fileset.skew[t]
    /\ fileset.partial > 0
    /\ \A s \in Sectors : added[s] > 0
    /\ \E s, t \in Sectors : shutter_offsets[s] # shutter_offsets[t]

\* C5: when the shutter phase completes, every sector's stripe at the final
\* offset has shutter flag 1, and the phase added 32 times the number of
\* candidate frames whose first stripe did not have shutter 1.
C5_ShutterOpen ==
    pc = "ready" =>
        \A s \in Sectors :
            /\ FinalStripe(s).shutter = 1
            /\ added[s] = BLOCKS_PER_SECTOR_PER_FRAME * notOpen[s]

\* C8: _find_offsets terminates (it returns or raises) on every finite
\* fileset.
C8_Terminates == <>(pc \in {"ready", "failed"})

\* a scan loop read past the end of its stream after `frame` reads
C8_Witness == pc = "failed" /\ stripe = <<>> /\ frame > 0

---------------------------------------------------------------------------
(* Stream handles. *)

---------------------------------------------------------------------------
(* Frame assembly. *)

\* the frame of the acquisition that dataset frame f is read from
ReadFrameIdx(f) ==
    FrameIdx(fileset.skew[0] + f * BLOCKS_PER_SECTOR_PER_FRAME + shutter_offsets[0])

\* the stripe of the frame read whose sync word is corrupted, if any
BadInRead == out.op = "grab" /\ out.status = "ok"
             /\ fileset.bad[1] = ReadFrameIdx(call.arg)

\* the decoded stripe j of sector s of the frame read
Decoded(s, j) == ConvertUint12(Payload(ReadFrameIdx(call.arg), s, j))

---------------------------------------------------------------------------
(* Noise correction. *)

\* C3: in every state of a constructed dataset exactly one of the two
\* correction modes is active, never both and never neither.
C3_ExactlyOneMode ==
    pc = "ready" =>
        \/ hidden_stripe_noise_reduction /\ user_noise_reduction # "True"
        \/ ~hidden_stripe_noise_reduction /\ user_noise_reduction = "True"

\* C4: on a dataset constructed in automatic mode, a read after setting a
\* valid dark reference and clearing it returns what the read returns in
\* automatic mode.
C4_ClearRestoresAuto ==
    (out.op = "getitem" /\ log = <<"auto", "set", "del">>) =>
        /\ out.status = GetItemWith(call.arg, TRUE, "unset", NoDark).status
        /\ out.value = GetItemWith(call.arg, TRUE, "unset", NoDark).value

---------------------------------------------------------------------------
(* Indexing. *)

\* an index resolved from ix lies outside [0, size) of its axis
OutOfRange(ix) ==
    \E k \in 1 .. 4 :
        \E n \in Values(Inds(ix[k], shape[k])) : n < 0 \/ n >= shape[k]

\* C7: __getitem__ fails whenever an index resolved from its 4 indices lies
\* outside [0, size) of its axis, negative indices and the detector axes
\* included.
C7_OutOfRangeFails ==
    (out.op = "getitem" /\ Len(call.arg) = 4 /\ OutOfRange(call.arg)) =>
        out.status = "error"

\* the half-open sequence start, start + step, ... below stop (step > 0)
HalfOpen(start, stop, step) ==
    LET span == IF stop > start THEN stop - start ELSE 0
        n == Cardinality({k \in 0 .. span : start + k * step < stop})
    IN  [k \in 1 .. n |-> start + (k - 1) * step]

\* the first-axis indices in the arrays _parse_slices returned, the second
\* axis having one index
XInds(m, mode) ==
    IF mode = "diffraction"
    THEN [a \in 1 .. m.shape[1] |-> m.x[<<a, 1>>]]
    ELSE [b \in 1 .. m.shape[2] |-> m.x[<<1, b>>]]

\* C9: _parse_slices expands a slice (start, stop, step) on an axis of size
\* N to the half-open sequence start, start+step, ... below stop, where only
\* an absent start is 0, only an absent stop is N and only an absent step
\* is 1 (a step of 0 is no slice and is left out).
C9_HalfOpenSlices ==
    ( /\ out.op = "parse" /\ out.status = "ok"
      /\ call.arg[1][1].kind = "slice"
      /\ call.arg[1][1].v[3] # Some(0) ) =>
        XInds(out.value, call.arg[2]) =
            HalfOpen(IF call.arg[1][1].v[1] = None THEN 0 ELSE call.arg[1][1].v[1][1],
                     IF call.arg[1][1].v[2] = None
                     THEN (IF call.arg[2] = "real" THEN shape[1] ELSE shape[3])
                     ELSE call.arg[1][1].v[2][1],
                     IF call.arg[1][1].v[3] = None THEN 1 ELSE call.arg[1][1].v[3][1])

---------------------------------------------------------------------------
(* Reductions. *)

\* the noise-corrected value of detector pixel q (counted from 1) in the
\* frame of scan position (x, y)
FrameValue(x, y, q) ==
    Corrected(GrabFrame(x + shape[1] * y).px, hidden_stripe_noise_reduction,
              user_noise_reduction, user_dark_reference, q[1] - 1, q[2] - 1)

\* C10: max(axis=(0,1)) returns at every detector pixel the maximum over the
\* scan positions of the noise-corrected value at that pixel, negative
\* values included.
C10_MaxOverScan ==
    (out.op = "max" /\ call.arg = <<0, 1>> /\ out.status = "ok") =>
        \A q \in DOMAIN out.value :
            out.value[q] =
                SetMax({ FrameValue(x, y, q) :
                           x \in 0 .. shape[1] - 1, y \in 0 .. shape[2] - 1 })

---------------------------------------------------------------------------
(* Slices on the scan axes. *)

\* the call is dataset[X, Y, :, :] with slices X and Y whose indices are all
\* in range, and it returned
ScanSliceRead ==
    /\ out.op = "getitem" /\ out.status = "ok"
    /\ Len(call.arg) = 4
    /\ call.arg[1].kind = "slice" /\ call.arg[2].kind = "slice"
    /\ call.arg[3] = Full /\ call.arg[4] = Full
    /\ \A k \in 1 .. 2 :
         /\ Len(Inds(call.arg[k], shape[k])) > 0
         /\ \A n \in Values(Inds(call.arg[k], shape[k])) : 0 <= n /\ n < shape[k]

\* the detector image dataset[x, y, :, :] returns
ScalarRead(x, y) == GetItem(<<Idx(x), Idx(y), Full, Full>>).value.outdata[<<1, 1>>]

\* C11: for in-range slices X and Y on the scan axes, dataset[X, Y, :, :]
\* before squeezing has scan shape (|X|, |Y|), and its element [a, b] is the
\* detector image dataset[X[a], Y[b], :, :] returns (a, b counted from 1).
C11_SliceAgreesWithScalar ==
    ScanSliceRead =>
        /\ out.value.shape[1] = Len(Inds(call.arg[1], shape[1]))
        /\ out.value.shape[2] = Len(Inds(call.arg[2], shape[2]))
        /\ \A a \in 1 .. Len(Inds(call.arg[1], shape[1])),
              b \in 1 .. Len(Inds(call.arg[2], shape[2])) :
              out.value.outdata[<<a, b>>] =
                  ScalarRead(Inds(call.arg[1], shape[1])[a],
                             Inds(call.arg[2], shape[2])[b])

=============================================================================
